---- MODULE Spec2Model ----
(***************************************************************************)
(* Model of mp/jssdk/ticket_server.go: DefaultTicketServer, a single       *)
(* process cache of the jsapi_ticket with one daemon goroutine             *)
(* (ticketUpdateDaemon) that serves refresh requests arriving on an        *)
(* unbuffered channel and the firings of a ticker.                         *)
(*                                                                         *)
(* Durations are kept in whole seconds (the code multiplies by             *)
(* time.Second).  The issuer (core.Client.GetJSON) is the environment: it  *)
(* answers every fetch with a transport error, an error code, or a         *)
(* {ticket, expires_in} pair.                                              *)
(***************************************************************************)
EXTENDS Integers, FiniteSets, Sequences, TLC

\* ------------------------------------------------------------------ bounds
NumCallers == 2                   \* goroutines calling Ticket / RefreshTicket

Callers == 1..NumCallers
NoCaller == 0

\* ------------------------------------------------------- program constants
MaxExpiresIn == 31556952          \* 60*60*24*365.2425
DaySeconds == 86400               \* time.Hour * 24, in seconds
TickTolerance == 2                \* time.Second*2

\* -------------------------------------------------------- the environment
\* Tickets the issuer hands out.
IssuerTickets == {"T1", "T2"}
\* What a caller may pass to RefreshTicket as currentTicket.
CurrentTickets == {""} \cup IssuerTickets
\* Raw expires_in values the issuer answers with: both sides of every
\* threshold of the switch, the values of the documented scenario, values
\* whose buffered results lie 1, 2 and 3 seconds apart (3601, 3603, 3604),
\* and a negative one (the field is an int64).
RawExpiresIn == {-1, 60, 61, 300, 301, 1800, 1801, 3600, 3601, 3603, 3604,
                 3700, 7200, 31556952, 31556953}
\* rand.Int63n(200) draws 0..199: the first and the last day count.
InitDays == {100, 299}

Nil == "nil"
ErrTransport == "GetJSON error"
ErrCode == "core.Error"
ErrTooLarge == "expires_in too large"
ErrTooSmall == "expires_in too small"

Min(a, b) == IF a <= b THEN a ELSE b

\* ------------------------------------------------------------- the state
VARIABLES
    ticketCache,   \* srv.ticketCache.ticket : [Ticket, ExpiresIn]
    cacheAge,      \* seconds ticketCache is known to have been held (a
                   \* lower bound), saturated at its ExpiresIn
    fresh,         \* TRUE iff ticketCache was put during the current period
                   \* of the running ticker
    tickDuration,  \* the daemon's tickDuration, in seconds
    tickerC,       \* TRUE iff ticker.C (capacity 1) holds a tick
    dpc,           \* where the daemon is: "select", "fetch", "respond"
    selCase,       \* the select case being run: "request" or "tick"
    served,        \* the caller whose request the daemon received
    currentTicket, \* the daemon's currentTicket
    ret,           \* updateTicket's results (ticket, cached, err)
    result,        \* the last answer GetJSON decoded into updateTicket's result
    inflight,      \* number of GetJSON calls that have not returned
    cpc,           \* where each caller is: "idle", "send", "recv"
    arg,           \* the currentTicket a caller is sending
    via,           \* the method a blocked caller entered by
    returned,      \* the last return of Ticket / RefreshTicket
    burst,         \* bookkeeping of a burst of RefreshTicket calls made by
                   \* all callers with the same currentTicket
    arrival        \* an observer's record: the callers blocked in
                   \* RefreshTicket and the tick in ticker.C (NoCaller),
                   \* in the order they arrived

dvars == <<dpc, selCase, served, currentTicket, ret, result, inflight>>
cvars == <<cpc, arg, via, returned, burst>>
tvars == <<tickDuration, tickerC>>
avars == <<cacheAge, fresh>>
vars == <<ticketCache, avars, tvars, dvars, cvars, arrival>>

zeroJsapiTicket == [Ticket |-> "", ExpiresIn |-> 0]

NoResult == [status |-> "none", Ticket |-> "", ExpiresIn |-> 0]
NoRet == [ticket |-> zeroJsapiTicket, cached |-> FALSE, err |-> Nil]
NoReturn == [caller |-> NoCaller, op |-> "none", arg |-> "", fetched |-> FALSE,
             duringFetch |-> FALSE, ticket |-> "", err |-> Nil]
NoResponse == [ticket |-> "", err |-> Nil]
NoBurst == [on |-> FALSE, same |-> FALSE, cur |-> "", ticks |-> FALSE,
            fetches |-> 0, results |-> {}, first |-> NoResponse]

\* ------------------------------------------------------------ the cache
getTicket == ticketCache

\* ------------------------------------------------------- updateTicket
\* Variant: the test `currentTicket != ""` is missing.
ShortCircuit_AlsoEmpty(cur, ticket) ==
    ticket.Ticket # "" /\ cur # ticket.Ticket

\* Variant: there is no short circuit.
ShortCircuit_Never(cur, ticket) == FALSE

\* Variant: the test `currentTicket != ticket.Ticket` is missing.
ShortCircuit_NoCompare(cur, ticket) ==
    cur # "" /\ ticket.Ticket # ""

\* The short circuit of updateTicket: the caller's ticket is not the cached
\* one any more.
ShortCircuit(cur, ticket) ==
    cur # "" /\ ticket.Ticket # "" /\ cur # ticket.Ticket

\* Variant: the thresholds compared with >= instead of >.
ExpiresInSwitch_GE(r) ==
    IF r >= MaxExpiresIn THEN [err |-> ErrTooLarge, ExpiresIn |-> r]
    ELSE IF r >= 60 * 60 THEN [err |-> Nil, ExpiresIn |-> r - 60 * 10]
    ELSE IF r >= 60 * 30 THEN [err |-> Nil, ExpiresIn |-> r - 60 * 5]
    ELSE IF r >= 60 * 5 THEN [err |-> Nil, ExpiresIn |-> r - 60]
    ELSE IF r >= 60 THEN [err |-> Nil, ExpiresIn |-> r - 10]
    ELSE [err |-> ErrTooSmall, ExpiresIn |-> r]

\* Variant: the cases in the order of the documented table, its ranges
\* taken with both ends, the first that matches applied.
ExpiresInSwitch_TableOrder(r) ==
    IF r > 60 * 60 THEN [err |-> Nil, ExpiresIn |-> r - 60 * 10]
    ELSE IF r >= 60 * 30 THEN [err |-> Nil, ExpiresIn |-> r - 60 * 5]
    ELSE IF r >= 60 * 5 THEN [err |-> Nil, ExpiresIn |-> r - 60]
    ELSE IF r >= 60 THEN [err |-> Nil, ExpiresIn |-> r - 10]
    ELSE IF r <= 60 THEN [err |-> ErrTooSmall, ExpiresIn |-> r]
    ELSE [err |-> ErrTooLarge, ExpiresIn |-> r]

\* The switch on result.ExpiresIn: the error and the buffered expires_in.
ExpiresInSwitch(r) ==
    IF r > MaxExpiresIn THEN [err |-> ErrTooLarge, ExpiresIn |-> r]
    ELSE IF r > 60 * 60 THEN [err |-> Nil, ExpiresIn |-> r - 60 * 10]
    ELSE IF r > 60 * 30 THEN [err |-> Nil, ExpiresIn |-> r - 60 * 5]
    ELSE IF r > 60 * 5 THEN [err |-> Nil, ExpiresIn |-> r - 60]
    ELSE IF r > 60 THEN [err |-> Nil, ExpiresIn |-> r - 10]
    ELSE [err |-> ErrTooSmall, ExpiresIn |-> r]

\* Variant: the transport error returns without clearing the cache.
AfterGetJSON_NoClearOnTransport(res, old) ==
    IF res.status = "transport"
    THEN [put |-> old,
          ret |-> [ticket |-> old, cached |-> FALSE, err |-> ErrTransport]]
    ELSE IF res.status = "errcode"
    THEN [put |-> zeroJsapiTicket,
          ret |-> [ticket |-> old, cached |-> FALSE, err |-> ErrCode]]
    ELSE LET sw == ExpiresInSwitch(res.ExpiresIn)
             t == [Ticket |-> res.Ticket, ExpiresIn |-> sw.ExpiresIn]
         IN IF sw.err # Nil
            THEN [put |-> zeroJsapiTicket,
                  ret |-> [ticket |-> old, cached |-> FALSE, err |-> sw.err]]
            ELSE [put |-> t,
                  ret |-> [ticket |-> t, cached |-> FALSE, err |-> Nil]]

\* Variant: the error code returns without clearing the cache.
AfterGetJSON_NoClearOnErrCode(res, old) ==
    IF res.status = "transport"
    THEN [put |-> zeroJsapiTicket,
          ret |-> [ticket |-> old, cached |-> FALSE, err |-> ErrTransport]]
    ELSE IF res.status = "errcode"
    THEN [put |-> old,
          ret |-> [ticket |-> old, cached |-> FALSE, err |-> ErrCode]]
    ELSE LET sw == ExpiresInSwitch(res.ExpiresIn)
             t == [Ticket |-> res.Ticket, ExpiresIn |-> sw.ExpiresIn]
         IN IF sw.err # Nil
            THEN [put |-> zeroJsapiTicket,
                  ret |-> [ticket |-> old, cached |-> FALSE, err |-> sw.err]]
            ELSE [put |-> t,
                  ret |-> [ticket |-> t, cached |-> FALSE, err |-> Nil]]

\* What updateTicket does with the answer of GetJSON: the value it puts in
\* the cache and the (ticket, cached, err) it returns.  `old` is the ticket
\* read from the cache on entry, which the named result still holds on the
\* error returns.
AfterGetJSON(res, old) ==
    IF res.status = "transport"
    THEN [put |-> zeroJsapiTicket,
          ret |-> [ticket |-> old, cached |-> FALSE, err |-> ErrTransport]]
    ELSE IF res.status = "errcode"
    THEN [put |-> zeroJsapiTicket,
          ret |-> [ticket |-> old, cached |-> FALSE, err |-> ErrCode]]
    ELSE LET sw == ExpiresInSwitch(res.ExpiresIn)
             t == [Ticket |-> res.Ticket, ExpiresIn |-> sw.ExpiresIn]
         IN IF sw.err # Nil
            THEN [put |-> zeroJsapiTicket,
                  ret |-> [ticket |-> old, cached |-> FALSE, err |-> sw.err]]
            ELSE [put |-> t,
                  ret |-> [ticket |-> t, cached |-> FALSE, err |-> Nil]]

abs(x) == IF x >= 0 THEN x ELSE -x

\* ----------------------------------------------------------------- Init
Init ==
    /\ ticketCache = zeroJsapiTicket
    /\ cacheAge = 0
    /\ fresh = FALSE
    /\ tickDuration \in {DaySeconds * d : d \in InitDays}
    /\ tickerC = FALSE
    /\ dpc = "select"
    /\ selCase = "request"
    /\ served = NoCaller
    /\ currentTicket = ""
    /\ ret = NoRet
    /\ result = NoResult
    /\ inflight = 0
    /\ cpc = [c \in Callers |-> "idle"]
    /\ arg = [c \in Callers |-> ""]
    /\ via = [c \in Callers |-> "none"]
    /\ returned = NoReturn
    /\ burst = NoBurst
    /\ arrival = <<>>

\* ------------------------------------------------------------- callers
\* A caller enters RefreshTicket and blocks on refreshTicketRequestChan.
\* A burst begins when this makes every caller blocked there with "" while
\* the cache is empty (on), or with the ticket the cache holds (same); any
\* other call ends the bookkeeping of a burst.  A tick the daemon is
\* handling when the burst begins counts as a tick of the burst.
BeginRefresh(c, op, cur) ==
    /\ cpc' = [cpc EXCEPT ![c] = "send"]
    /\ arg' = [arg EXCEPT ![c] = cur]
    /\ via' = [via EXCEPT ![c] = op]
    /\ LET all == /\ ticketCache.Ticket = cur
                  /\ \A d \in Callers : cpc'[d] = "send" /\ arg'[d] = cur
       IN burst' = [NoBurst EXCEPT !.on = all /\ cur = "",
                                   !.same = all /\ cur # "",
                                   !.cur = IF all THEN cur ELSE "",
                                   !.ticks = all /\ cur # "" /\ dpc # "select"]
    /\ UNCHANGED returned

\* Variant: the test of Ticket() inverted.
FastPath_Inverted(ticket) == ticket = ""

\* The test of Ticket(): is the cached ticket usable?
FastPath(ticket) == ticket # ""

\* Ticket(): the cached ticket, or RefreshTicket("").
Ticket(c) ==
    /\ cpc[c] = "idle"
    /\ LET ticket == getTicket.Ticket IN
       IF FastPath(ticket)
       THEN /\ returned' = [caller |-> c, op |-> "Ticket", arg |-> "",
                            fetched |-> FALSE, duringFetch |-> (inflight > 0),
                            ticket |-> ticket, err |-> Nil]
            /\ burst' = NoBurst
            /\ UNCHANGED <<cpc, arg, via>>
       ELSE BeginRefresh(c, "Ticket", "")
    /\ UNCHANGED <<ticketCache, avars, tvars, dvars>>

\* RefreshTicket(currentTicket), up to the blocking send.
RefreshTicket(c, cur) ==
    /\ cpc[c] = "idle"
    /\ BeginRefresh(c, "RefreshTicket", cur)
    /\ UNCHANGED <<ticketCache, avars, tvars, dvars>>

\* ---------------------------------------------------------- the daemon
\* Variant: every request is handed to a goroutine of its own.
AtSelect_Always == TRUE

\* Variant: the next request is taken while the response is still unsent.
AtSelect_OrResponding == dpc \in {"select", "respond"}

\* The daemon is at its select and can take a case.
AtSelect == dpc = "select"

\* The entry of updateTicket(cur) for caller c (NoCaller: the ticker): the
\* short circuit, or GetJSON starts.
EnterUpdateTicket(cur, c) ==
    LET ticket == getTicket IN
    /\ currentTicket' = cur
    /\ served' = c
    /\ IF ShortCircuit(cur, ticket)
       THEN /\ ret' = [ticket |-> ticket, cached |-> TRUE, err |-> Nil]
            /\ UNCHANGED <<inflight, burst>>
       ELSE /\ ret' = [ticket |-> ticket, cached |-> FALSE, err |-> Nil]
            /\ inflight' = inflight + 1
            /\ burst' = IF (burst.on \/ burst.same) /\ c # NoCaller
                        THEN [burst EXCEPT !.fetches = @ + 1]
                        ELSE IF burst.same
                        THEN [burst EXCEPT !.ticks = TRUE]
                        ELSE burst
    /\ UNCHANGED result

\* NEW_TICK_DURATION: a new ticker with the given period (the tick that
\* waited in the stopped ticker's channel is gone with it).
NewTicker(d) ==
    /\ tickDuration' = d
    /\ tickerC' = FALSE
    /\ fresh' = FALSE

\* Variant: the tolerance compared with >= instead of >.
AfterTickUpdate_GE(r) ==
    IF r.err # Nil
    THEN UNCHANGED tvars /\ fresh' = TRUE
    ELSE LET newTickDuration == r.ticket.ExpiresIn IN
         IF abs(tickDuration - newTickDuration) >= TickTolerance
         THEN NewTicker(newTickDuration)
         ELSE UNCHANGED tvars /\ fresh' = TRUE

\* Variant: the ticker case never retunes.
AfterTickUpdate_NoRetune(r) == UNCHANGED tvars /\ fresh' = TRUE

\* Variant: `if err != nil { break }` is missing.
AfterTickUpdate_IgnoreErr(r) ==
    LET newTickDuration == r.ticket.ExpiresIn IN
    IF abs(tickDuration - newTickDuration) > TickTolerance
    THEN NewTicker(newTickDuration)
    ELSE UNCHANGED tvars /\ fresh' = TRUE

\* The rest of `case <-ticker.C` once updateTicket("") has returned r.
AfterTickUpdate(r) ==
    IF r.err # Nil
    THEN UNCHANGED tvars /\ fresh' = TRUE
    ELSE LET newTickDuration == r.ticket.ExpiresIn IN
         IF abs(tickDuration - newTickDuration) > TickTolerance
         THEN NewTicker(newTickDuration)
         ELSE UNCHANGED tvars /\ fresh' = TRUE

\* The daemon is back at its select.
BackToSelect ==
    /\ dpc' = "select"
    /\ served' = NoCaller
    /\ currentTicket' = ""

\* case currentTicket := <-srv.refreshTicketRequestChan
RecvRequest(c) ==
    /\ AtSelect
    /\ cpc[c] = "send"
    /\ selCase' = "request"
    /\ EnterUpdateTicket(arg[c], c)
    /\ dpc' = IF ShortCircuit(arg[c], getTicket) THEN "respond" ELSE "fetch"
    /\ cpc' = [cpc EXCEPT ![c] = "recv"]
    /\ arg' = [arg EXCEPT ![c] = ""]
    /\ UNCHANGED <<ticketCache, avars, tvars, via, returned>>

\* case <-ticker.C
RecvTick ==
    /\ AtSelect
    /\ tickerC
    /\ selCase' = "tick"
    /\ EnterUpdateTicket("", NoCaller)
    /\ IF ShortCircuit("", getTicket)
       THEN /\ dpc' = "select"
            /\ IF abs(tickDuration - getTicket.ExpiresIn) > TickTolerance
               THEN NewTicker(getTicket.ExpiresIn)
               ELSE /\ tickerC' = FALSE
                    /\ UNCHANGED <<tickDuration, fresh>>
       ELSE /\ dpc' = "fetch"
            /\ tickerC' = FALSE
            /\ UNCHANGED <<tickDuration, fresh>>
    /\ UNCHANGED <<ticketCache, cacheAge, cpc, arg, via, returned>>

\* Variant: the error branch breaks without sending.
AfterRequestUpdate_NoSendOnError(r) ==
    IF r.err # Nil THEN "select" ELSE "respond"

\* Variant: a failed update is tried again at once.
AfterRequestUpdate_RetryOnError(r) ==
    IF r.err # Nil THEN "fetch" ELSE "respond"

\* Where `case currentTicket := <-...` goes once updateTicket has returned
\* r: both branches send on refreshTicketResponseChan.
AfterRequestUpdate(r) == "respond"

\* GetJSON returns res; updateTicket finishes.  On the tick case the daemon
\* goes on to compare the periods and is back at its select.
GetJSONReturns(res) ==
    /\ dpc = "fetch"
    /\ inflight > 0
    /\ LET out == AfterGetJSON(res, ret.ticket) IN
       /\ result' = res
       /\ ticketCache' = out.put
       /\ cacheAge' = 0
       /\ inflight' = inflight - 1
       /\ ret' = out.ret
       /\ IF selCase = "request"
          THEN /\ dpc' = AfterRequestUpdate(out.ret)
               /\ fresh' = TRUE
               /\ UNCHANGED <<tvars, served, currentTicket>>
          ELSE /\ BackToSelect
               /\ AfterTickUpdate(out.ret)
    /\ UNCHANGED <<selCase, cvars>>

\* Variant: the error is sent together with the ticket updateTicket
\* returned.
Response_KeepTicket(r) == [ticket |-> r.ticket.Ticket, err |-> r.err]

\* What the daemon sends on refreshTicketResponseChan for r.
Response(r) ==
    IF r.err # Nil
    THEN [ticket |-> "", err |-> r.err]
    ELSE [ticket |-> r.ticket.Ticket, err |-> Nil]

\* Variant: `if !cached` is missing.
RetuneAfterResponse_AlsoCached(r) == r.err = Nil

\* Variant: the caller's branch applies the tolerance of the tick branch.
RetuneAfterResponse_Tolerance(r) ==
    /\ r.err = Nil
    /\ ~r.cached
    /\ abs(tickDuration - r.ticket.ExpiresIn) > TickTolerance

\* After the response: `if !cached` on the branch without error.
RetuneAfterResponse(r) == r.err = Nil /\ ~r.cached

\* The daemon sends on refreshTicketResponseChan and a caller blocked in
\* RefreshTicket receives and returns; the daemon then retunes unless the
\* ticket was the cached one or the update failed.
SendResponse(c) ==
    /\ dpc = "respond"
    /\ cpc[c] = "recv"
    /\ LET rslt == Response(ret) IN
       /\ returned' = [caller |-> c, op |-> via[c],
                       arg |-> currentTicket, fetched |-> ~ret.cached,
                       duringFetch |-> FALSE,
                       ticket |-> rslt.ticket, err |-> rslt.err]
       /\ burst' = IF burst.on
                   THEN [burst EXCEPT !.results = @ \cup {rslt}]
                   ELSE IF burst.same
                   THEN [burst EXCEPT !.results = @ \cup {rslt},
                                      !.first = IF burst.results = {}
                                                THEN rslt ELSE @]
                   ELSE burst
    /\ cpc' = [cpc EXCEPT ![c] = "idle"]
    /\ via' = [via EXCEPT ![c] = "none"]
    /\ BackToSelect
    /\ IF RetuneAfterResponse(ret)
       THEN NewTicker(ret.ticket.ExpiresIn)
       ELSE UNCHANGED <<tvars, fresh>>
    /\ UNCHANGED <<ticketCache, cacheAge, selCase, ret, result, inflight,
                   arg>>

\* ----------------------------------------------------------- the ticker
\* One period of the running ticker elapses: a tick is put in ticker.C, and
\* a credential that was in the cache for the whole period is that much
\* older (one put during the period is older by an unknown part of it).
\* A tick that finds ticker.C full is dropped by the runtime and changes
\* nothing in the program: it is not a step here.
TickerFires ==
    /\ ~tickerC
    /\ tickerC' = TRUE
    /\ fresh' = FALSE
    /\ cacheAge' = IF ticketCache = zeroJsapiTicket \/ fresh THEN cacheAge
                   ELSE Min(cacheAge + tickDuration, ticketCache.ExpiresIn)
    /\ UNCHANGED <<ticketCache, tickDuration, dvars, cvars>>

\* ------------------------------------------------------ specifications
\* The answers GetJSON can give.
Responses ==
    {[status |-> "transport", Ticket |-> "", ExpiresIn |-> 0],
     [status |-> "errcode", Ticket |-> "", ExpiresIn |-> 0]}
    \cup [status : {"ok"}, Ticket : IssuerTickets, ExpiresIn : RawExpiresIn]

\* The answers used where the callers race: one failure, two tickets.
RaceResponses ==
    {r \in Responses : r.status = "transport"
                       \/ (r.status = "ok" /\ r.ExpiresIn = 7200)}

\* All callers, the daemon and the ticker (no record of arrivals is kept).
Next ==
    \/ \E c \in Callers : Ticket(c) /\ UNCHANGED arrival
    \/ \E c \in Callers, cur \in CurrentTickets :
          RefreshTicket(c, cur) /\ UNCHANGED arrival
    \/ \E c \in Callers : RecvRequest(c) /\ UNCHANGED arrival
    \/ RecvTick /\ UNCHANGED arrival
    \/ \E res \in RaceResponses : GetJSONReturns(res) /\ UNCHANGED arrival
    \/ \E c \in Callers : SendResponse(c) /\ UNCHANGED arrival
    \/ TickerFires /\ UNCHANGED arrival

Spec == Init /\ [][Next]_vars

\* One caller, the daemon and the ticker, with every answer of the issuer.
NextSolo ==
    \/ Ticket(1) /\ UNCHANGED arrival
    \/ \E cur \in CurrentTickets : RefreshTicket(1, cur) /\ UNCHANGED arrival
    \/ RecvRequest(1) /\ UNCHANGED arrival
    \/ RecvTick /\ UNCHANGED arrival
    \/ \E res \in Responses : GetJSONReturns(res) /\ UNCHANGED arrival
    \/ SendResponse(1) /\ UNCHANGED arrival
    \/ TickerFires /\ UNCHANGED arrival

SpecSolo == Init /\ [][NextSolo]_vars

\* The answers and arguments used for liveness: one failure and one ticket,
\* which (the callers being interchangeable) only the first caller reports.
LiveResponses == {r \in RaceResponses : r.Ticket # "T2"}
LiveTickets(c) == IF c = 1 THEN CurrentTickets \ {"T2"} ELSE {""}

\* The construction with the shortest first period.
InitLive == Init /\ \A d \in InitDays : tickDuration <= DaySeconds * d

NextLive ==
    \/ \E c \in Callers : Ticket(c) /\ UNCHANGED arrival
    \/ \E c \in Callers : \E cur \in LiveTickets(c) :
          RefreshTicket(c, cur) /\ UNCHANGED arrival
    \/ \E c \in Callers : RecvRequest(c) /\ UNCHANGED arrival
    \/ RecvTick /\ UNCHANGED arrival
    \/ \E res \in LiveResponses : GetJSONReturns(res) /\ UNCHANGED arrival
    \/ \E c \in Callers : SendResponse(c) /\ UNCHANGED arrival
    \/ TickerFires /\ UNCHANGED arrival

\* All callers, the daemon and the ticker with the scheduling the liveness
\* of the callers rests on: every GetJSON call returns, the daemon's send is
\* taken by the blocked receiver, and a sender blocked on the request
\* channel is not passed over for ever.
LiveSpec ==
    /\ InitLive /\ [][NextLive]_vars
    /\ WF_vars(\E res \in LiveResponses :
                  GetJSONReturns(res) /\ UNCHANGED arrival)
    /\ \A c \in Callers : WF_vars(SendResponse(c) /\ UNCHANGED arrival)
    /\ \A c \in Callers : SF_vars(RecvRequest(c) /\ UNCHANGED arrival)

\* The observer's record after a step of the program: a caller that has
\* returned, and a tick that was taken or was in the channel of a ticker
\* that was stopped, leave it; the caller that has just begun its send, or
\* the tick just put in ticker.C, is added at its end.
Arrive ==
    LET waits(x) == IF x = NoCaller THEN tickerC /\ tickerC'
                    ELSE cpc[x] # "idle" /\ cpc'[x] # "idle"
        comes(x) == IF x = NoCaller THEN ~tickerC /\ tickerC'
                    ELSE cpc[x] = "idle" /\ cpc'[x] = "send"
        new == {x \in Callers \cup {NoCaller} : comes(x)}
    IN arrival' = IF new = {}
                  THEN SelectSeq(arrival, waits)
                  ELSE Append(SelectSeq(arrival, waits), CHOOSE x \in new : TRUE)

\* What the callers pass where the order of arrival is recorded.
OrderTickets == CurrentTickets \ {"T2"}

\* All callers, the daemon and the ticker, with the record of arrivals.
NextOrder ==
    \/ \E c \in Callers : Ticket(c) /\ Arrive
    \/ \E c \in Callers, cur \in OrderTickets : RefreshTicket(c, cur) /\ Arrive
    \/ \E c \in Callers : RecvRequest(c) /\ Arrive
    \/ RecvTick /\ Arrive
    \/ \E res \in LiveResponses : GetJSONReturns(res) /\ Arrive
    \/ \E c \in Callers : SendResponse(c) /\ Arrive
    \/ TickerFires /\ Arrive

SpecOrder == InitLive /\ [][NextOrder]_vars

\* ================================================================ claims
Receiving == {c \in Callers : cpc[c] = "recv"}
Sending == {c \in Callers : cpc[c] = "send"}

\* Caller c makes the step of calling Ticket().
TicketStep(c) ==
    /\ cpc[c] = "idle"
    /\ \/ cpc'[c] = "send" /\ via'[c] = "Ticket"
       \/ /\ cpc'[c] = "idle"
          /\ returned' # returned
          /\ returned'.caller = c
          /\ returned'.op = "Ticket"

\* The daemon receives the request of caller c.
RecvStep(c) == cpc[c] = "send" /\ cpc'[c] = "recv"

\* Caller c receives the response and returns from RefreshTicket.
ReturnStep(c) == cpc[c] = "recv" /\ cpc'[c] = "idle"

\* A GetJSON call returns.
FetchReturnStep == inflight' < inflight

\* An answer of the issuer that makes the fetch fail.
FailedFetch(res) ==
    \/ res.status \in {"transport", "errcode"}
    \/ res.status = "ok" /\ (res.ExpiresIn > 31556952 \/ res.ExpiresIn <= 60)

\* The daemon takes the tick waiting in ticker.C.
TickStep == dpc = "select" /\ tickerC /\ ~tickerC'

\* C1: at most one issuer fetch (GetJSON inside updateTicket) is in
\* progress in every reachable state, whatever the callers and the ticker
\* do.
C1_AtMostOneFetch == inflight <= 1

\* C1 witness: a fetch is in flight while another caller is blocked on the
\* request channel and a tick is waiting in ticker.C.
C1_Witness == inflight = 1 /\ Sending # {} /\ tickerC

\* C4: between the daemon receiving a request and sending its result the
\* only caller waiting on the response channel is the one whose request was
\* received, and nobody waits there at any other time; so the result goes
\* to the caller whose currentTicket was handled.
C4_ResponseToRequester ==
    IF dpc \in {"fetch", "respond"} /\ selCase = "request"
    THEN Receiving = {served}
    ELSE Receiving = {}

\* C4 witness: the daemon holds the result of one caller's request while
\* another caller is blocked in its send.
C4_Witness ==
    /\ dpc = "respond"
    /\ served \in Callers
    /\ Sending # {}
    /\ Receiving = {served}

\* C5: a Ticket() call that reads a non-empty ticket returns that ticket
\* with a nil error in that step, sends no request, starts no fetch and
\* leaves the daemon, the cache and the ticker as they are, also while a
\* fetch is in flight.
C5_FastPath ==
    [][\A c \in Callers :
          (TicketStep(c) /\ ticketCache.Ticket # "") =>
              /\ cpc'[c] = "idle"
              /\ returned'.ticket = ticketCache.Ticket
              /\ returned'.err = Nil
              /\ ~returned'.fetched
              /\ UNCHANGED <<ticketCache, tvars, dvars, cpc, arg, via>>]_vars

\* C5 witness: a Ticket() call returned the cached ticket while a fetch was
\* in flight.
C5_Witness ==
    /\ returned.op = "Ticket"
    /\ returned.duringFetch
    /\ returned.ticket # ""
    /\ returned.err = Nil

\* C6: when the daemon receives RefreshTicket(B), B non-empty, while the
\* cache holds a non-empty ticket A different from B, no fetch starts, the
\* caller receives A with a nil error, and the cache, the ticker period and
\* the running ticker are left unchanged up to and including the response.
C6_StaleShortCircuit ==
    [][\A c \in Callers :
          /\ (RecvStep(c) /\ arg[c] # "" /\ ticketCache.Ticket # ""
                /\ arg[c] # ticketCache.Ticket) =>
                 /\ inflight' = inflight
                 /\ dpc' = "respond"
                 /\ ret'.cached
                 /\ UNCHANGED <<ticketCache, tvars, result>>
          /\ (ReturnStep(c) /\ ret.cached) =>
                 /\ returned'.ticket = ticketCache.Ticket
                 /\ returned'.ticket # ""
                 /\ returned'.ticket # returned'.arg
                 /\ returned'.arg # ""
                 /\ returned'.err = Nil
                 /\ ~returned'.fetched
                 /\ UNCHANGED <<ticketCache, tvars, result, inflight>>
          /\ (dpc = "respond" /\ ret.cached) =>
                 UNCHANGED <<ticketCache, tickDuration>>]_vars

\* C6 witness: RefreshTicket("T2") returned the cached "T1" without a
\* fetch.
C6_Witness ==
    /\ returned.op = "RefreshTicket"
    /\ returned.arg = "T2"
    /\ returned.ticket = "T1"
    /\ ~returned.fetched
    /\ ticketCache.Ticket = "T1"

\* C2 as stated: for a burst of RefreshTicket("") calls by all callers on
\* an empty cache, once all have returned exactly one fetch was made for
\* them and all received the same result.
C2_Original ==
    (burst.on /\ Sending = {} /\ Receiving = {}) =>
        (burst.fetches = 1 /\ Cardinality(burst.results) = 1)

\* C2 amended: in such a burst every request the daemon has received started
\* a fetch of its own (N fetches once all N returned), and every
\* RefreshTicket("") returns the ticket or the error of the fetch made for
\* it.
C2_OneFetchPerCall ==
    /\ [](burst.on =>
            burst.fetches = Cardinality(Callers) - Cardinality(Sending))
    /\ [][\A c \in Callers :
             (ReturnStep(c) /\ currentTicket = "") =>
                 /\ returned'.fetched
                 /\ (returned'.err = Nil) = ~FailedFetch(result)
                 /\ returned'.ticket =
                       IF FailedFetch(result) THEN "" ELSE result.Ticket]_vars

\* C2 witness: a burst is over, one fetch was made per caller and the
\* callers received different results.
C2_Witness ==
    /\ burst.on
    /\ Sending = {} /\ Receiving = {}
    /\ burst.fetches = Cardinality(Callers)
    /\ Cardinality(burst.results) > 1

\* C3: with every fetch returning and fair scheduling, every caller blocked
\* in RefreshTicket (also when entered from Ticket()) eventually returns
\* with a result; the daemon only ever holds a response when exactly one
\* caller waits for it, and at most one caller waits at a time, so no
\* response is left unreceived and none is received twice.
C3_EveryRequestAnswered ==
    /\ \A c \in Callers : (cpc[c] # "idle") ~> (cpc[c] = "idle")
    /\ [](Cardinality(Receiving) <= 1)
    /\ [](dpc = "respond" => Cardinality(Receiving) = 1)

\* C3 witness: a caller that entered from Ticket() is blocked on the
\* response channel while the daemon holds an error for it and another
\* caller is blocked on the request channel.
C3_Witness ==
    /\ dpc = "respond"
    /\ ret.err # Nil
    /\ \E c \in Receiving : via[c] = "Ticket"
    /\ Sending # {}

\* C7: after any failed fetch (transport error, error code, expires_in too
\* large or too small), caller or ticker triggered, the cache is empty; a
\* Ticket() call on the empty cache sends a request with "", which the
\* daemon answers by a new fetch, and returns the result of that fetch.
C7_FailureClearsCache ==
    /\ [](ret.err # Nil => ticketCache = zeroJsapiTicket)
    /\ [][/\ (FetchReturnStep /\ FailedFetch(result')) =>
                (ticketCache' = zeroJsapiTicket /\ ret'.err # Nil)
          /\ \A c \in Callers :
                /\ (TicketStep(c) /\ ticketCache.Ticket = "") =>
                       (cpc'[c] = "send" /\ arg'[c] = ""
                          /\ returned' = returned)
                /\ (RecvStep(c) /\ arg[c] = "") =>
                       (inflight' = inflight + 1 /\ dpc' = "fetch")
                /\ (ReturnStep(c) /\ via[c] = "Ticket") =>
                       returned'.fetched]_vars

\* C7 witness: a ticker triggered fetch failed while a ticket was cached,
\* the cache is empty and a Ticket() call has sent its request.
C7_Witness ==
    /\ selCase = "tick"
    /\ ret.err # Nil
    /\ ret.ticket.Ticket # ""
    /\ ticketCache = zeroJsapiTicket
    /\ \E c \in Sending : via[c] = "Ticket" /\ arg[c] = ""

\* C8: for a raw expires_in r of a successful answer the cache receives
\* r-600 when 3600 < r <= 31556952, r-300 when 1800 < r <= 3600, r-60 when
\* 300 < r <= 1800, r-10 when 60 < r <= 300; r <= 60 fails with "expires_in
\* too small", r > 31556952 with "expires_in too large", and both store the
\* empty credential.
C8_BufferTable ==
    [][(FetchReturnStep /\ result'.status = "ok") =>
          LET r == result'.ExpiresIn
              stored(e) == /\ ticketCache' = [Ticket |-> result'.Ticket,
                                               ExpiresIn |-> e]
                           /\ ret'.err = Nil
                           /\ ret'.ticket = ticketCache'
              failed(e) == /\ ticketCache' = zeroJsapiTicket
                           /\ ret'.err = e
          IN /\ (3600 < r /\ r <= 31556952) => stored(r - 600)
             /\ (1800 < r /\ r <= 3600) => stored(r - 300)
             /\ (300 < r /\ r <= 1800) => stored(r - 60)
             /\ (60 < r /\ r <= 300) => stored(r - 10)
             /\ r <= 60 => failed(ErrTooSmall)
             /\ r > 31556952 => failed(ErrTooLarge)
             /\ r = 3601 => ticketCache'.ExpiresIn = 3001
             /\ r = 1801 => ticketCache'.ExpiresIn = 1501
             /\ r = 301 => ticketCache'.ExpiresIn = 241
             /\ r = 61 => ticketCache'.ExpiresIn = 51]_vars

\* C8 witness: the issuer answered 3600 and 3300 is cached.
C8_Witness ==
    /\ result.status = "ok"
    /\ result.ExpiresIn = 3600
    /\ ticketCache = [Ticket |-> result.Ticket, ExpiresIn |-> 3300]

\* C9: when a caller's request was answered by a fetch that succeeded, the
\* daemon, having sent the response, starts a new ticker whose period is the
\* buffered expires_in just stored, whatever the previous period was.
C9_RetuneOnCallerRefresh ==
    [][\A c \in Callers :
          (ReturnStep(c) /\ ~ret.cached /\ ~FailedFetch(result)) =>
              /\ returned'.fetched
              /\ returned'.err = Nil
              /\ ticketCache.ExpiresIn = ret.ticket.ExpiresIn
              /\ tickDuration' = ticketCache.ExpiresIn
              /\ ~tickerC']_vars

\* C9 witness: RefreshTicket("T1") made a fetch answered {T2, 3700}; the
\* cache is {T2, 3100} and the period 3100 s.
C9_Witness ==
    /\ returned.op = "RefreshTicket"
    /\ returned.arg = "T1"
    /\ returned.fetched
    /\ returned.ticket = "T2"
    /\ result = [status |-> "ok", Ticket |-> "T2", ExpiresIn |-> 3700]
    /\ ticketCache = [Ticket |-> "T2", ExpiresIn |-> 3100]
    /\ tickDuration = 3100
    /\ dpc = "select"

\* Caller c got the cached ticket from its last call and is reporting it
\* through RefreshTicket.
ReportsCached(c) ==
    /\ cpc[c] = "send"
    /\ arg[c] = ticketCache.Ticket
    /\ returned.caller = c
    /\ returned.err = Nil
    /\ returned.ticket = arg[c]

\* C10 as stated: a cached ticket is younger than its buffered expires_in
\* and is not one a caller has reported through RefreshTicket.
C10_Original ==
    ticketCache.Ticket # "" =>
        /\ cacheAge < ticketCache.ExpiresIn
        /\ ~\E c \in Callers : ReportsCached(c)

\* C10 amended: the cache is empty when no fetch has returned or the last
\* one failed, and otherwise holds the ticket of the last answer with its
\* expires_in reduced by a margin of at most 600 s.
C10_CacheIsLastAnswer ==
    IF result.status = "none" \/ FailedFetch(result)
    THEN ticketCache = zeroJsapiTicket
    ELSE /\ ticketCache.Ticket = result.Ticket
         /\ ticketCache.ExpiresIn < result.ExpiresIn
         /\ ticketCache.ExpiresIn >= result.ExpiresIn - 600
         /\ ticketCache.ExpiresIn > 0

\* C10 witness: the cached ticket has outlived its buffered expires_in, its
\* holder is reporting it, and it is still in the cache.
C10_Witness ==
    /\ ticketCache.Ticket # ""
    /\ cacheAge >= ticketCache.ExpiresIn
    /\ \E c \in Callers : ReportsCached(c)

\* C11: when a ticker triggered fetch succeeds with buffered expires_in E
\* while the period is P, the daemon stops the ticker and starts a new one
\* of period E (the tick waiting in the old ticker is gone) if and only if
\* P and E are more than 2 seconds apart; otherwise the period and the
\* running ticker, with the tick that may wait in it, stay as they are.
C11_RetuneOnTick ==
    [][(FetchReturnStep /\ selCase = "tick" /\ ~FailedFetch(result')) =>
          LET E == ticketCache'.ExpiresIn
              P == tickDuration
          IN /\ ret'.ticket.ExpiresIn = E
             /\ IF P - E > 2 \/ E - P > 2
                THEN tickDuration' = E /\ ~tickerC'
                ELSE UNCHANGED <<tickDuration, tickerC>>]_vars

\* C11 witness: a ticker triggered fetch stored a credential of 3003 s and
\* the ticker keeps its period of 3001 s.
C11_Witness ==
    /\ selCase = "tick"
    /\ dpc = "select"
    /\ result.status = "ok"
    /\ ret.err = Nil
    /\ ticketCache.ExpiresIn = 3003
    /\ tickDuration = 3001

\* C12: a fetch that fails (transport error, error code, expires_in too
\* large or too small), whether a caller or the ticker caused it, leaves the
\* period and the running ticker with its pending tick as they were, also
\* when the error is sent to the caller; and when the daemon takes a tick
\* after a failed fetch it starts a fetch again, the period still unchanged.
C12_FailureKeepsPeriod ==
    [][/\ (FetchReturnStep /\ FailedFetch(result')) =>
             (ret'.err # Nil /\ UNCHANGED <<tickDuration, tickerC>>)
       /\ \A c \in Callers :
             (ReturnStep(c) /\ FailedFetch(result) /\ ~ret.cached) =>
                 (returned'.err # Nil /\ UNCHANGED <<tickDuration, tickerC>>)
       /\ (TickStep /\ FailedFetch(result)) =>
             (inflight' = inflight + 1 /\ dpc' = "fetch"
                /\ UNCHANGED tickDuration)]_vars

\* C12 witness: the period is 3001 s, the last fetch failed on the
\* validation of expires_in and emptied the cache, and the fetch of a later
\* tick is in progress with the period still 3001 s.
C12_Witness ==
    /\ dpc = "fetch"
    /\ selCase = "tick"
    /\ result.status = "ok"
    /\ FailedFetch(result)
    /\ ticketCache = zeroJsapiTicket
    /\ tickDuration = 3001

\* C13: every tick the daemon takes starts a fetch, whatever the cache
\* holds; and a request the daemon receives starts a fetch whenever its
\* currentTicket is "", or equals the cached ticket, or the cache is empty.
C13_NoShortCircuit ==
    [][/\ TickStep =>
             /\ inflight' = inflight + 1
             /\ dpc' = "fetch"
             /\ selCase' = "tick"
             /\ ~ret'.cached
       /\ \A c \in Callers :
             (RecvStep(c) /\ (\/ arg[c] = ""
                              \/ arg[c] = ticketCache.Ticket
                              \/ ticketCache.Ticket = "")) =>
                 /\ inflight' = inflight + 1
                 /\ dpc' = "fetch"
                 /\ ~ret'.cached]_vars

\* C13 witness: RefreshTicket("T1") is being answered by a fetch while the
\* cache holds "T1", and the call before it was a RefreshTicket("") that
\* fetched while a ticket was cached and received it from the issuer again.
C13_Witness ==
    /\ dpc = "fetch"
    /\ selCase = "request"
    /\ currentTicket = "T1"
    /\ ticketCache.Ticket = "T1"
    /\ returned.op = "RefreshTicket"
    /\ returned.arg = ""
    /\ returned.fetched
    /\ returned.ticket = "T1"

\* C14: a fetch starts only in the step in which the daemon takes a request
\* or a tick, and one such step starts one fetch; when a fetch returns,
\* failed or not, the daemon is not fetching any more, so that it fetches
\* again only after it has taken another request or tick.
C14_NoInlineRetry ==
    /\ [](dpc = "fetch" => inflight = 1)
    /\ [][/\ (inflight' > inflight \/ (dpc' = "fetch" /\ dpc # "fetch")) =>
                /\ inflight' = inflight + 1
                /\ TickStep \/ \E c \in Callers : RecvStep(c)
          /\ FetchReturnStep => (inflight' = 0 /\ dpc' # "fetch")]_vars

\* C14 witness: a fetch has failed and its error has been sent; no fetch is
\* in progress although a request and a tick are waiting to be taken.
C14_Witness ==
    /\ dpc = "select"
    /\ selCase = "request"
    /\ FailedFetch(result)
    /\ ret.err # Nil
    /\ inflight = 0
    /\ tickerC
    /\ Sending # {}

\* C15 as stated: requests and ticks are handled one at a time and in the
\* order of their arrival: what the daemon takes is the earliest arrival
\* among the requests and the tick that wait.
C15_Original ==
    /\ [](dpc = "select" => (inflight = 0 /\ Receiving = {}))
    /\ [][/\ \A c \in Callers :
                RecvStep(c) => (dpc = "select" /\ Head(arrival) = c)
          /\ TickStep => Head(arrival) = NoCaller]_vars

\* C15 amended: requests and ticks are handled one at a time: the daemon
\* takes one only at its select, with no fetch in progress and no caller
\* waiting for a response, and is back at its select only by sending the
\* response to the caller it serves or, for a tick, by the return of the
\* fetch; what it takes is one of the waiting arrivals, not necessarily the
\* earliest.
C15_OneAtATime ==
    /\ [](dpc = "select" => (inflight = 0 /\ Receiving = {}))
    /\ [][/\ \A c \in Callers :
                RecvStep(c) =>
                    /\ dpc = "select" /\ dpc' # "select"
                    /\ \E i \in 1..Len(arrival) : arrival[i] = c
          /\ TickStep =>
                /\ dpc' = "fetch"
                /\ \E i \in 1..Len(arrival) : arrival[i] = NoCaller
          /\ (dpc # "select" /\ dpc' = "select") =>
                IF selCase = "request"
                THEN served \in Callers /\ ReturnStep(served)
                ELSE FetchReturnStep]_vars

\* C15 witness: the daemon holds the response for the caller that arrived
\* last, while the other callers and a tick, which all arrived before it,
\* still wait.
C15_Witness ==
    /\ dpc = "respond"
    /\ served \in Callers
    /\ Len(arrival) = NumCallers + 1
    /\ arrival[Len(arrival)] = served
    /\ tickerC
    /\ Sending = Callers \ {served}

\* What a successful answer with raw expires_in r leaves in the cache.
Buffered(r, e) == (result'.ExpiresIn = r) =>
                      (ticketCache'.ExpiresIn = e /\ ret'.err = Nil)

\* C16 as stated: the rows of the table are tried in the order of the
\* table with inclusive ranges: 3600, 1800 and 300 lose 300, 300 and 60
\* seconds, and a value above 31556952 meets the "> 3600" row first.
C16_Original ==
    [][(FetchReturnStep /\ result'.status = "ok") =>
          /\ Buffered(3600, 3300)
          /\ Buffered(1800, 1500)
          /\ Buffered(300, 240)
          /\ Buffered(31556953, 31556353)]_vars

\* C16 amended: the "too large" test comes first and every threshold is a
\* strict lower limit: 3600 loses 300, 1800 loses 60, 300 loses 10, 60 and
\* anything below are too small, 31556952 loses 600, and anything above it
\* is too large and never buffered.
C16_BoundaryRows ==
    [][(FetchReturnStep /\ result'.status = "ok") =>
          /\ Buffered(3600, 3300)
          /\ Buffered(1800, 1740)
          /\ Buffered(300, 290)
          /\ Buffered(31556952, 31556352)
          /\ result'.ExpiresIn <= 60 =>
                (ret'.err = ErrTooSmall /\ ticketCache' = zeroJsapiTicket)
          /\ result'.ExpiresIn > 31556952 =>
                (ret'.err = ErrTooLarge /\ ticketCache' = zeroJsapiTicket)]_vars

\* C16 witness: the issuer answered 1800 and 1740 is cached.
C16_Witness ==
    /\ result.status = "ok"
    /\ result.ExpiresIn = 1800
    /\ ticketCache = [Ticket |-> result.Ticket, ExpiresIn |-> 1740]

\* C17: all callers are blocked in RefreshTicket(T), T the cached ticket,
\* and the daemon handles no tick before they have returned.  If the first
\* response is a ticket other than T, one fetch is made for all the
\* requests and every response is that ticket, which the cache holds; and
\* as long as every response is T again, every request the daemon has
\* received has made a fetch of its own.
C17_Collapse ==
    (burst.same /\ ~burst.ticks) =>
        /\ (burst.first.err = Nil /\ burst.first.ticket \notin {"", burst.cur}) =>
              /\ burst.fetches = 1
              /\ burst.results = {burst.first}
              /\ ticketCache.Ticket = burst.first.ticket
        /\ (burst.results \subseteq {[ticket |-> burst.cur, err |-> Nil]}) =>
              burst.fetches = Cardinality(Callers) - Cardinality(Sending)

\* C17 witness: all callers have returned from RefreshTicket("T1"), one
\* fetch was made and all received "T2".
C17_Witness ==
    /\ burst.same
    /\ ~burst.ticks
    /\ burst.cur = "T1"
    /\ Sending = {} /\ Receiving = {}
    /\ burst.fetches = 1
    /\ burst.results = {[ticket |-> "T2", err |-> Nil]}

\* C18: the period of the ticker is a whole number of days from 100 to 299
\* or lies between 51 and 31556352 seconds, so it is positive and, in
\* nanoseconds, below 2^63 (9223372036 s, more than 106751 days); and the
\* cache holds the zero credential or one whose expires_in lies between 51
\* and 31556352 and is smaller than the raw value of the last answer.
C18_PeriodInRange ==
    /\ \/ \E d \in 100..299 : tickDuration = DaySeconds * d
       \/ (51 <= tickDuration /\ tickDuration <= 31556352)
    /\ tickDuration > 0
    /\ tickDuration \div DaySeconds < 106751
    /\ \/ ticketCache = zeroJsapiTicket
       \/ /\ 51 <= ticketCache.ExpiresIn
          /\ ticketCache.ExpiresIn <= 31556352
          /\ result.status = "ok"
          /\ ticketCache.ExpiresIn < result.ExpiresIn

\* C18 witness: the longest credential the switch accepts is cached and the
\* ticker runs with its period, which is above the longest initial one.
C18_Witness ==
    /\ ticketCache.ExpiresIn = 31556352
    /\ tickDuration = 31556352
    /\ tickDuration > DaySeconds * 299
    /\ result.ExpiresIn = MaxExpiresIn

\* C19: whenever the daemon is at its select and the cache holds a ticket,
\* the period of the ticker and the cached expires_in are at most 2 seconds
\* apart.
C19_PeriodFollowsCache ==
    (dpc = "select" /\ ticketCache.Ticket # "") =>
        /\ tickDuration - ticketCache.ExpiresIn <= 2
        /\ ticketCache.ExpiresIn - tickDuration <= 2

\* C19 witness: the daemon is at its select, the cached credential lasts
\* 3001 s and the ticker, started for an earlier credential, has a period
\* of 3003 s and a tick waiting.
C19_Witness ==
    /\ dpc = "select"
    /\ ticketCache.Ticket # ""
    /\ ticketCache.ExpiresIn = 3001
    /\ tickDuration = 3003
    /\ tickerC

\* What Ticket and RefreshTicket may return: a ticket and no error, or an
\* error and no ticket.
WellFormed(r) ==
    \/ r.ticket # "" /\ r.err = Nil
    \/ r.ticket = "" /\ r.err # Nil

\* C20: the issuer never answering a success with an empty ticket, every
\* return of Ticket() and of RefreshTicket() is a non-empty ticket with a
\* nil error or an empty ticket with an error; a ticket returned is the one
\* the cache holds at the return, hence one it held during the call.
C20_ResultWellFormed ==
    [][\A c \in Callers :
          ((TicketStep(c) /\ cpc'[c] = "idle") \/ ReturnStep(c)) =>
              /\ returned'.caller = c
              /\ WellFormed(returned')
              /\ returned'.ticket # "" =>
                    (returned'.ticket = ticketCache.Ticket
                       /\ ticketCache' = ticketCache)
              /\ returned'.err # Nil => returned'.ticket = ""]_vars

\* C20 witness: a RefreshTicket call whose fetch failed on the validation
\* of expires_in returned the error without the ticket that was cached
\* when it began, which updateTicket still returned beside the error.
C20_Witness ==
    /\ returned.op = "RefreshTicket"
    /\ returned.fetched
    /\ returned.err = ErrTooSmall
    /\ returned.ticket = ""
    /\ ret.err = ErrTooSmall
    /\ ret.ticket.Ticket # ""

====
